---- MODULE Spec2Model ----
(***************************************************************************)
(* JSBSimRunner (src/runner/jsbsim_runner.py): the rollout-collection /    *)
(* buffer-insertion / evaluation control loop of the training harness.     *)
(*                                                                         *)
(* Spec     : load() followed by run(), one action per call that run()     *)
(*            makes (warmup, collect, envs.step, insert, compute, train,   *)
(*            save, log, eval).  eval() is entered and raises at the       *)
(*            allocation of its accumulator (line 119).                    *)
(* SpecFair : Spec with weak fairness on its next step (one synchronous    *)
(*            thread), for the termination of eval() and run().            *)
(* SpecEval : the loop of eval() (lines 121-145) as a step machine, entered*)
(*            with the locals lines 118-119 are written to create: the     *)
(*            counter at 0, the empty result list, one zero accumulator    *)
(*            row per n_rollout_threads.                                   *)
(*                                                                         *)
(* Collaborators that are not part of the runner file (the vectorized      *)
(* environment, the Policy, the ReplayBuffer of base_runner) are modelled  *)
(* at their interface.  Arrays of shape (E, A, F) are functions            *)
(* [1..E -> [1..A -> Int]]; a feature vector is one integer and the zero   *)
(* vector is 0.  Flat (E x A, F) arrays are sequences of length E*A.         *)
(***************************************************************************)
EXTENDS Integers, Sequences, FiniteSets, TLC

\* ---------------------------------------------------------------- bounds
MaxEnvSteps == 4      \* num_env_steps ranges over 0..MaxEnvSteps
MaxHorizon == 2       \* buffer_size ranges over 1..MaxHorizon
MaxEnvs == 2          \* n_rollout_threads ranges over 1..MaxEnvs
MaxInterval == 2      \* save/log/eval interval range over 1..MaxInterval
MaxEvalEpisodes == 3  \* eval_episodes ranges over 0..MaxEvalEpisodes
MaxEvalSteps == 3     \* steps one evaluation is followed for
NumAgents == 2        \* num_agents

VARIABLES
    \* configuration (all_args), fixed after construction
    num_env_steps, buffer_size, n_rollout_threads,
    save_interval, log_interval, eval_interval, use_eval,
    algorithm_name, n_obs_spaces,
    \* objects built by load()
    built, buffer,
    \* control: position in load()/run(), loop variables of run()
    pc, error, episodes, episode, step,
    \* locals of the inner loop of run()
    values, actions, action_log_probs, rnn_states_actor, rnn_states_critic,
    obs, rewards, dones,
    \* training environments (self.envs)
    envs,
    \* eval(): target, evaluation pool (self.eval_envs) and locals
    eval_episodes, eval_envs, total_episodes, eval_episode_rewards,
    eval_cumulative_rewards, eval_obs, eval_rnn_states, eval_actions,
    eval_rewards, eval_dones,
    \* history of eval(): what the last act was given and returned, the
    \* environments that completed on each step, the environments that had
    \* some but not all agents done on the last step, the metrics eval() has
    \* handed to log_info
    eval_in_obs, eval_in_rnn, eval_pol_rnn, completed, eval_partial, eval_infos,
    \* history: what the last collect passed to the Policy and what the Policy
    \* returned (before the in-place masking of insert), the call counters,
    \* the last event, the cycle that last wrote each buffer slot, the cycles
    \* on which save, log and eval were invoked
    in_obs, in_rnn_actor, in_rnn_critic, pol_rnn_actor, pol_rnn_critic,
    cnt, last, slot_cycle, saved, logged, evaluated

cfgvars == <<num_env_steps, buffer_size, n_rollout_threads, save_interval,
             log_interval, eval_interval, use_eval, algorithm_name, n_obs_spaces>>
localvars == <<values, actions, action_log_probs, rnn_states_actor,
               rnn_states_critic, obs, rewards, dones>>
polvars == <<in_obs, in_rnn_actor, in_rnn_critic, pol_rnn_actor, pol_rnn_critic>>
logvars == <<saved, logged, evaluated>>
histvars == <<polvars, cnt, last, slot_cycle, logvars>>
evalcfg == <<eval_episodes>>
evallocals == <<total_episodes, eval_episode_rewards, eval_cumulative_rewards,
                eval_obs, eval_rnn_states, eval_actions, eval_rewards, eval_dones>>
evalhist == <<eval_in_obs, eval_in_rnn, eval_pol_rnn, completed, eval_partial,
              eval_infos>>
evalvars == <<evalcfg, eval_envs, evallocals, evalhist>>
runvars == <<episodes, episode, step, localvars, histvars>>
vars == <<cfgvars, built, buffer, pc, error, episodes, episode, step, localvars,
          envs, histvars, evalvars>>

\* ------------------------------------------------------------ array helpers
Agents == 1..NumAgents
Envs(E) == 1..E

\* np.zeros((E, A, F))
Zeros(E) == [e \in Envs(E) |-> [a \in Agents |-> 0]]

\* np.concatenate(x) of an (E, A, F) array: the E blocks of A rows one after
\* the other, an (E x A, F) array
Concatenate(x) ==
    LET E == Cardinality(DOMAIN x)
    IN  [i \in 1..(E * NumAgents) |->
            x[((i - 1) \div NumAgents) + 1][((i - 1) % NumAgents) + 1]]

\* (mutant of Split) the blocks are taken with stride n: agent-major order
SplitStrided(flat, n) ==
    LET w == Len(flat) \div n
    IN  [e \in 1..n |-> [a \in 1..w |-> flat[(a - 1) * n + e]]]

\* np.array(np.split(flat, n)): n equal contiguous blocks
Split(flat, n) ==
    LET w == Len(flat) \div n
    IN  [e \in 1..n |-> [a \in 1..w |-> flat[(e - 1) * w + a]]]

\* ------------------------------------------------------ vectorized environment
\* Observation / reward that the environment pool returns for (e, a) on its
\* tick-th call: every call returns values that no other call returns.
EnvObs(tick, E) == [e \in Envs(E) |-> [a \in Agents |-> tick * 100 + e * 10 + a]]
EnvRewards(tick, E) == [e \in Envs(E) |-> [a \in Agents |-> tick * 10 + e]]
\* Done flags of one environment: no agent done, the first agent alone done,
\* every agent done
DoneRows ==
    {[a \in Agents |-> FALSE], [a \in Agents |-> a = 1], [a \in Agents |-> TRUE]}

\* The (E, A) done-flag arrays a step may return
DoneBatches(E) == [Envs(E) -> DoneRows]

\* ------------------------------------------------------------------ Policy
\* get_actions(flat_obs, flat_rnn_actor, flat_rnn_critic) and
\* act(flat_obs, flat_rnn, deterministic) on their k-th call: row i gets an
\* action computed from the observation of row i and fresh, non-zero
\* recurrent states.
PolicyRnnActor(k, n) == [i \in 1..n |-> 2 * (k * 10 + i) + 1]
PolicyRnnCritic(k, n) == [i \in 1..n |-> 2 * (k * 10 + i) + 2]
PolicyActions(flat_obs) == [i \in 1..Len(flat_obs) |-> flat_obs[i]]
PolicyValues(flat_obs) == [i \in 1..Len(flat_obs) |-> flat_obs[i] + 1000]
PolicyLogProbs(flat_obs) == [i \in 1..Len(flat_obs) |-> flat_obs[i] + 2000]

\* ------------------------------------------------------------ ReplayBuffer
Slots(H) == 0..H

\* ReplayBuffer(all_args, num_agents, obs_space, act_space): every quantity is
\* allocated (H+1, E, A, F), zero-filled, cursor at 0.
NewBuffer(H, E) ==
    [obs |-> [t \in Slots(H) |-> Zeros(E)],
     actions |-> [t \in Slots(H) |-> Zeros(E)],
     rewards |-> [t \in Slots(H) |-> Zeros(E)],
     dones |-> [t \in Slots(H) |-> Zeros(E)],
     action_log_probs |-> [t \in Slots(H) |-> Zeros(E)],
     values |-> [t \in Slots(H) |-> Zeros(E)],
     rnn_states_actor |-> [t \in Slots(H) |-> Zeros(E)],
     rnn_states_critic |-> [t \in Slots(H) |-> Zeros(E)],
     step |-> 0]

NoBuffer == [step |-> 0]

\* buffer.insert(...): the transition goes to the slot after the cursor and the
\* cursor, which ranges over the H+1 slots, advances; when the horizon is full
\* (slot H written) the final slot is wrapped into slot 0 (the observation,
\* and the recurrent states that the next query reads there) and the cursor
\* is back at 0.
BufferInsert(b, H, o, act, rew, dn, lp, val, ra, rc) ==
    LET t == b.step + 1
        w == [b EXCEPT !.obs[t] = o,
                       !.actions[t] = act,
                       !.rewards[t] = rew,
                       !.dones[t] = dn,
                       !.action_log_probs[t] = lp,
                       !.values[t] = val,
                       !.rnn_states_actor[t] = ra,
                       !.rnn_states_critic[t] = rc,
                       !.step = t]
    IN  IF t = H
        THEN [w EXCEPT !.obs[0] = o,
                       !.rnn_states_actor[0] = ra,
                       !.rnn_states_critic[0] = rc,
                       !.step = 0]
        ELSE w

\* ------------------------------------------------------------------ Init
NoLocal == <<>>

\* eval() has not been entered
EvalIdle ==
    /\ eval_episodes = 1
    /\ eval_envs = [n |-> 1, tick |-> 0, resets |-> 0, steps |-> 0, obs |-> NoLocal]
    /\ total_episodes = 0
    /\ eval_episode_rewards = <<>>
    /\ eval_cumulative_rewards = NoLocal
    /\ eval_obs = NoLocal
    /\ eval_rnn_states = NoLocal
    /\ eval_actions = NoLocal
    /\ eval_rewards = NoLocal
    /\ eval_dones = NoLocal
    /\ eval_in_obs = NoLocal
    /\ eval_in_rnn = NoLocal
    /\ eval_pol_rnn = NoLocal
    /\ completed = <<>>
    /\ eval_partial = {}
    /\ eval_infos = <<>>

Init ==
    /\ EvalIdle
    /\ num_env_steps \in 0..MaxEnvSteps
    /\ buffer_size \in 1..MaxHorizon
    /\ n_rollout_threads \in 1..MaxEnvs
    /\ save_interval \in 1..MaxInterval
    /\ log_interval \in 1..MaxInterval
    /\ eval_interval \in 1..MaxInterval
    /\ use_eval \in BOOLEAN
    /\ algorithm_name \in {"ppo", "mappo"}
    /\ n_obs_spaces \in {NumAgents, NumAgents + 1}
    /\ built = {}
    /\ buffer = NoBuffer
    /\ pc = "load"
    /\ error = "none"
    /\ episodes = 0
    /\ episode = 0
    /\ step = 0
    /\ values = NoLocal
    /\ actions = NoLocal
    /\ action_log_probs = NoLocal
    /\ rnn_states_actor = NoLocal
    /\ rnn_states_critic = NoLocal
    /\ obs = NoLocal
    /\ rewards = NoLocal
    /\ dones = NoLocal
    /\ envs = [tick |-> 0, resets |-> 0, steps |-> 0, obs |-> NoLocal]
    /\ in_obs = NoLocal
    /\ in_rnn_actor = NoLocal
    /\ in_rnn_critic = NoLocal
    /\ pol_rnn_actor = NoLocal
    /\ pol_rnn_critic = NoLocal
    /\ cnt = [collect |-> 0, envstep |-> 0, insert |-> 0, compute |-> 0,
              train |-> 0, save |-> 0, log |-> 0, eval |-> 0]
    /\ last = "init"
    /\ slot_cycle = <<>>
    /\ saved = {}
    /\ logged = {}
    /\ evaluated = {}

\* ------------------------------------------------------------------ load()
\* assert len(self.envs.observation_space) == self.num_agents
ArityOk == n_obs_spaces = NumAgents

\* (mutant of AlgorithmKnown) every identifier resolves
AlgorithmKnownAny == TRUE

\* if self.algorithm_name == "ppo": ... else: raise NotImplementedError
AlgorithmKnown == algorithm_name = "ppo"

\* what load() has constructed when it gets past both checks (restore() then
\* loads policy weights, which are no part of this state)
LoadBuilt == {"policy", "trainer", "buffer"}

Load ==
    /\ pc = "load"
    /\ IF ~ArityOk
       THEN /\ pc' = "error"
            /\ error' = "AssertionError"
            /\ UNCHANGED <<built, buffer, slot_cycle>>
       ELSE IF ~AlgorithmKnown
       THEN /\ pc' = "error"
            /\ error' = "NotImplementedError"
            /\ UNCHANGED <<built, buffer, slot_cycle>>
       ELSE /\ built' = LoadBuilt
            /\ buffer' = NewBuffer(buffer_size, n_rollout_threads)
            /\ slot_cycle' = [t \in Slots(buffer_size) |-> -1]
            /\ pc' = "run"
            /\ error' = error
    /\ last' = "load"
    /\ UNCHANGED <<evalvars, cfgvars, episodes, episode, step, localvars, envs,
                   polvars, cnt, logvars>>

\* ------------------------------------------------------------------ run()
\* self.envs.reset()
EnvReset(env, E) ==
    [env EXCEPT !.tick = @ + 1, !.resets = @ + 1, !.obs = EnvObs(env.tick + 1, E)]

\* self.envs.step(actions)
EnvStep(env, E) ==
    [env EXCEPT !.tick = @ + 1, !.steps = @ + 1, !.obs = EnvObs(env.tick + 1, E)]

\* episodes = int(self.num_env_steps) // self.buffer_size // self.n_rollout_threads
Episodes == (num_env_steps \div buffer_size) \div n_rollout_threads

\* (mutant of Warmup) the environments are reset but the observation is not
\* written to the buffer
WarmupNoWrite ==
    /\ pc = "run"
    /\ envs' = EnvReset(envs, n_rollout_threads)
    /\ episodes' = Episodes
    /\ episode' = 0
    /\ pc' = "episode"
    /\ last' = "warmup"
    /\ UNCHANGED <<evalvars, cfgvars, built, buffer, error, step, localvars, polvars,
                   cnt, slot_cycle, logvars>>

\* warmup(): reset the environments, buffer.obs[0] = obs.copy(); then run()
\* computes the number of update cycles
Warmup ==
    /\ pc = "run"
    /\ envs' = EnvReset(envs, n_rollout_threads)
    /\ buffer' = [buffer EXCEPT !.obs[0] = envs'.obs]
    /\ slot_cycle' = [slot_cycle EXCEPT ![0] = 0]
    /\ episodes' = Episodes
    /\ episode' = 0
    /\ pc' = "episode"
    /\ last' = "warmup"
    /\ UNCHANGED <<evalvars, cfgvars, built, error, step, localvars, polvars, cnt, logvars>>

\* (mutant of EpisodeBegin) warmup is repeated at the start of every cycle
EpisodeBeginWarmup ==
    /\ pc = "episode"
    /\ episode < episodes
    /\ envs' = EnvReset(envs, n_rollout_threads)
    /\ buffer' = [buffer EXCEPT !.obs[0] = envs'.obs]
    /\ step' = 0
    /\ pc' = "collect"
    /\ last' = "episode"
    /\ UNCHANGED <<evalvars, cfgvars, built, error, episodes, episode, localvars,
                   polvars, cnt, slot_cycle, logvars>>

\* (mutant of EpisodeBegin) the loop index is not restarted for the new cycle
EpisodeBeginKeepStep ==
    /\ pc = "episode"
    /\ episode < episodes
    /\ pc' = "collect"
    /\ last' = "episode"
    /\ UNCHANGED <<evalvars, cfgvars, built, buffer, error, episodes, episode, step,
                   localvars, envs, polvars, cnt, slot_cycle, logvars>>

\* for episode in range(episodes): the next update cycle starts with
\* for step in range(self.buffer_size) at step 0
EpisodeBegin ==
    /\ pc = "episode"
    /\ episode < episodes
    /\ step' = 0
    /\ pc' = "collect"
    /\ last' = "episode"
    /\ UNCHANGED <<evalvars, cfgvars, built, buffer, error, episodes, episode, localvars,
                   envs, polvars, cnt, slot_cycle, logvars>>

\* the for loop is exhausted: run() returns
RunReturn ==
    /\ pc = "episode"
    /\ episode >= episodes
    /\ pc' = "done"
    /\ last' = "return"
    /\ UNCHANGED <<evalvars, cfgvars, built, buffer, error, episodes, episode, step,
                   localvars, envs, polvars, cnt, slot_cycle, logvars>>

\* (mutant of CollectSlot) collect reads the slot after its step index
CollectSlotAhead(s) == s + 1

\* the buffer slot that collect(step) reads
CollectSlot(s) == s

\* collect(step): the Policy is queried with the flattened slot step of the
\* buffer and its flat outputs are split into n_rollout_threads blocks
Collect ==
    /\ pc = "collect"
    /\ LET t == CollectSlot(step)
           E == n_rollout_threads
           k == cnt.collect
           flat_obs == Concatenate(buffer.obs[t])
           flat_actor == Concatenate(buffer.rnn_states_actor[t])
           flat_critic == Concatenate(buffer.rnn_states_critic[t])
       IN  /\ in_obs' = flat_obs
           /\ in_rnn_actor' = flat_actor
           /\ in_rnn_critic' = flat_critic
           /\ values' = Split(PolicyValues(flat_obs), E)
           /\ actions' = Split(PolicyActions(flat_obs), E)
           /\ action_log_probs' = Split(PolicyLogProbs(flat_obs), E)
           /\ rnn_states_actor' = Split(PolicyRnnActor(k, Len(flat_obs)), E)
           /\ rnn_states_critic' = Split(PolicyRnnCritic(k, Len(flat_obs)), E)
    /\ pol_rnn_actor' = rnn_states_actor'
    /\ pol_rnn_critic' = rnn_states_critic'
    /\ cnt' = [cnt EXCEPT !.collect = @ + 1]
    /\ pc' = "envstep"
    /\ last' = "collect"
    /\ UNCHANGED <<evalvars, cfgvars, built, buffer, error, episodes, episode, step,
                   obs, rewards, dones, envs, slot_cycle, logvars>>

\* obs, rewards, dones, infos = self.envs.step(actions)
EnvsStep ==
    /\ pc = "envstep"
    /\ \E d \in DoneBatches(n_rollout_threads) :
          /\ envs' = EnvStep(envs, n_rollout_threads)
          /\ obs' = envs'.obs
          /\ rewards' = EnvRewards(envs'.tick, n_rollout_threads)
          /\ dones' = d
    /\ cnt' = [cnt EXCEPT !.envstep = @ + 1]
    /\ pc' = "insert"
    /\ last' = "envstep"
    /\ UNCHANGED <<evalvars, cfgvars, built, buffer, error, episodes, episode, step,
                   values, actions, action_log_probs, rnn_states_actor,
                   rnn_states_critic, polvars, slot_cycle, logvars>>

\* (mutant of MaskDone) an environment with a done agent has all its rows zeroed
MaskDoneWholeEnv(x, d) ==
    [e \in DOMAIN x |-> [a \in DOMAIN x[e] |->
        IF \E b \in DOMAIN d[e] : d[e][b] THEN 0 ELSE x[e][a]]]

\* x[dones == True] = np.zeros(((dones == True).sum(), F))
MaskDone(x, d) ==
    [e \in DOMAIN x |-> [a \in DOMAIN x[e] |-> IF d[e][a] THEN 0 ELSE x[e][a]]]

\* (mutant of AfterInsert) the horizon is cut after its first insert
AfterInsertCut(s) == "compute"

\* where the for loop over step goes after the insert of step s
AfterInsert(s) == IF s + 1 < buffer_size THEN "collect" ELSE "compute"

\* insert(data): the recurrent states of the done (e, a) are zeroed in place,
\* then the transition is handed to buffer.insert; the for loop advances
Insert ==
    /\ pc = "insert"
    /\ rnn_states_actor' = MaskDone(rnn_states_actor, dones)
    /\ rnn_states_critic' = MaskDone(rnn_states_critic, dones)
    /\ buffer' = BufferInsert(buffer, buffer_size, obs, actions, rewards, dones,
                              action_log_probs, values,
                              rnn_states_actor', rnn_states_critic')
    /\ slot_cycle' = [t \in DOMAIN slot_cycle |->
                         IF buffer'.obs[t] # buffer.obs[t] THEN episode
                         ELSE slot_cycle[t]]
    /\ cnt' = [cnt EXCEPT !.insert = @ + 1]
    /\ pc' = AfterInsert(step)
    /\ step' = IF pc' = "collect" THEN step + 1 ELSE step
    /\ last' = "insert"
    /\ UNCHANGED <<evalvars, cfgvars, built, error, episodes, episode, values, actions,
                   action_log_probs, obs, rewards, dones, envs, polvars, logvars>>

\* self.compute(): return computation over the filled buffer
Compute ==
    /\ pc = "compute"
    /\ cnt' = [cnt EXCEPT !.compute = @ + 1]
    /\ pc' = "train"
    /\ last' = "compute"
    /\ UNCHANGED <<evalvars, cfgvars, built, buffer, error, episodes, episode, step,
                   localvars, envs, polvars, slot_cycle, logvars>>

\* train_infos = self.train(): policy update
Train ==
    /\ pc = "train"
    /\ cnt' = [cnt EXCEPT !.train = @ + 1]
    /\ pc' = "save"
    /\ last' = "train"
    /\ UNCHANGED <<evalvars, cfgvars, built, buffer, error, episodes, episode, step,
                   localvars, envs, polvars, slot_cycle, logvars>>

\* episode % self.save_interval == 0 or episode == episodes - 1
SaveDue(c) == c % save_interval = 0 \/ c = episodes - 1

Save ==
    /\ pc = "save"
    /\ IF SaveDue(episode)
       THEN /\ saved' = saved \cup {episode}
            /\ cnt' = [cnt EXCEPT !.save = @ + 1]
       ELSE UNCHANGED <<saved, cnt>>
    /\ pc' = "log"
    /\ last' = "save"
    /\ UNCHANGED <<evalvars, cfgvars, built, buffer, error, episodes, episode, step,
                   localvars, envs, polvars, slot_cycle, logged, evaluated>>

\* episode % self.log_interval == 0
LogDue(c) == c % log_interval = 0

\* the log branch reads np.mean(self.buffer.rewards) and calls log_info
Log ==
    /\ pc = "log"
    /\ IF LogDue(episode)
       THEN /\ logged' = logged \cup {episode}
            /\ cnt' = [cnt EXCEPT !.log = @ + 1]
       ELSE UNCHANGED <<logged, cnt>>
    /\ pc' = "eval"
    /\ last' = "log"
    /\ UNCHANGED <<evalvars, cfgvars, built, buffer, error, episodes, episode, step,
                   localvars, envs, polvars, slot_cycle, saved, evaluated>>

\* (mutant of EvalDue) the enabled flag is not consulted
EvalDueNoFlag(c) == c % eval_interval = 0

\* episode % self.eval_interval == 0 and self.use_eval
EvalDue(c) == c % eval_interval = 0 /\ use_eval

\* self.buffer.rewards.shape[2:], the axes of the rewards array after (t, e):
\* the agent axis and the feature axis
RewardsTail == <<NumAgents, 1>>

\* np.zeros(self.n_rollout_threads, *self.buffer.rewards.shape[2:], dtype=np.float32):
\* the shape is not passed as one tuple, so every axis of the tail is a further
\* positional argument, and the first of them lands on the dtype parameter,
\* which is given by keyword too: the call raises TypeError unless the tail is empty
AllocRaises == Len(RewardsTail) > 0

\* eval(total_num_steps), entered from run(): the allocation of
\* eval_cumulative_rewards is its second statement
EvalCall ==
    /\ pc = "eval"
    /\ EvalDue(episode)
    /\ AllocRaises
    /\ evaluated' = evaluated \cup {episode}
    /\ cnt' = [cnt EXCEPT !.eval = @ + 1]
    /\ pc' = "error"
    /\ error' = "TypeError"
    /\ last' = "eval"
    /\ UNCHANGED <<evalvars, cfgvars, built, buffer, episodes, episode, step,
                   localvars, envs, polvars, slot_cycle, saved, logged>>

\* no evaluation on this cycle: the for loop over episode advances
EvalSkip ==
    /\ pc = "eval"
    /\ ~EvalDue(episode)
    /\ episode' = episode + 1
    /\ pc' = "episode"
    /\ last' = "next"
    /\ UNCHANGED <<evalvars, cfgvars, built, buffer, error, episodes, step,
                   localvars, envs, polvars, cnt, slot_cycle, logvars>>

Next ==
    \/ Load
    \/ Warmup
    \/ EpisodeBegin
    \/ RunReturn
    \/ Collect
    \/ EnvsStep
    \/ Insert
    \/ Compute
    \/ Train
    \/ Save
    \/ Log
    \/ EvalCall
    \/ EvalSkip

Spec == Init /\ [][Next]_vars

\* load() and run() as a single synchronous thread of control: a statement
\* that can be executed is executed
SpecFair == Spec /\ WF_vars(Next)

\* ------------------------------------------------------------------ eval()
\* the state of run() when eval() is entered at the end of cycle 0 with
\* buffer_size = 1: warmup, one collect / step / insert without done flags,
\* compute, train
EntryEnvs(E) == EnvStep(EnvReset([tick |-> 0, resets |-> 0, steps |-> 0, obs |-> NoLocal], E), E)

EntryBuffer(E) ==
    LET b0 == [NewBuffer(1, E) EXCEPT !.obs[0] = EnvObs(1, E)]
        flat == Concatenate(b0.obs[0])
    IN  BufferInsert(b0, 1, EnvObs(2, E),
                     Split(PolicyActions(flat), E), EnvRewards(2, E),
                     [e \in Envs(E) |-> [a \in Agents |-> FALSE]],
                     Split(PolicyLogProbs(flat), E), Split(PolicyValues(flat), E),
                     Split(PolicyRnnActor(0, Len(flat)), E),
                     Split(PolicyRnnCritic(0, Len(flat)), E))

\* The loop of eval() taken by itself: total_episodes, eval_episode_rewards
\* = 0, [] and eval_cumulative_rewards = zeros(n_rollout_threads, A, F), the
\* array line 119 is written to allocate (under Spec the call raises, see
\* AllocRaises, and the loop is not reached); the evaluation pool has its own
\* size
InitEval ==
    /\ n_rollout_threads \in 1..MaxEnvs
    /\ num_env_steps = n_rollout_threads
    /\ buffer_size = 1
    /\ save_interval = 1
    /\ log_interval = 1
    /\ eval_interval = 1
    /\ use_eval = TRUE
    /\ algorithm_name = "ppo"
    /\ n_obs_spaces = NumAgents
    /\ built = LoadBuilt
    /\ buffer = EntryBuffer(n_rollout_threads)
    /\ pc = "eval_reset"
    /\ error = "none"
    /\ episodes = 1
    /\ episode = 0
    /\ step = 0
    /\ values = Split(PolicyValues(Concatenate(EnvObs(1, n_rollout_threads))), n_rollout_threads)
    /\ actions = Split(PolicyActions(Concatenate(EnvObs(1, n_rollout_threads))), n_rollout_threads)
    /\ action_log_probs = Split(PolicyLogProbs(Concatenate(EnvObs(1, n_rollout_threads))), n_rollout_threads)
    /\ rnn_states_actor = buffer.rnn_states_actor[1]
    /\ rnn_states_critic = buffer.rnn_states_critic[1]
    /\ obs = buffer.obs[1]
    /\ rewards = buffer.rewards[1]
    /\ dones = buffer.dones[1]
    /\ envs = EntryEnvs(n_rollout_threads)
    /\ in_obs = Concatenate(EnvObs(1, n_rollout_threads))
    /\ in_rnn_actor = Concatenate(Zeros(n_rollout_threads))
    /\ in_rnn_critic = Concatenate(Zeros(n_rollout_threads))
    /\ pol_rnn_actor = rnn_states_actor
    /\ pol_rnn_critic = rnn_states_critic
    /\ cnt = [collect |-> 1, envstep |-> 1, insert |-> 1, compute |-> 1,
              train |-> 1, save |-> 1, log |-> 1, eval |-> 1]
    /\ last = "eval"
    /\ slot_cycle = [t \in Slots(1) |-> 0]
    /\ saved = {0}
    /\ logged = {0}
    /\ evaluated = {0}
    /\ eval_episodes \in 0..MaxEvalEpisodes
    /\ \E n \in 1..MaxEnvs :
          eval_envs = [n |-> n, tick |-> 0, resets |-> 0, steps |-> 0, obs |-> NoLocal]
    /\ total_episodes = 0
    /\ eval_episode_rewards = <<>>
    /\ eval_cumulative_rewards = Zeros(n_rollout_threads)
    /\ eval_obs = NoLocal
    /\ eval_rnn_states = NoLocal
    /\ eval_actions = NoLocal
    /\ eval_rewards = NoLocal
    /\ eval_dones = NoLocal
    /\ eval_in_obs = NoLocal
    /\ eval_in_rnn = NoLocal
    /\ eval_pol_rnn = NoLocal
    /\ completed = <<>>
    /\ eval_partial = {}
    /\ eval_infos = <<>>

\* eval_obs = self.envs.reset(); eval_rnn_states = np.zeros((n_rollout_threads, A, F))
EvalReset ==
    /\ pc = "eval_reset"
    /\ envs' = EnvReset(envs, n_rollout_threads)
    /\ eval_obs' = envs'.obs
    /\ eval_rnn_states' = Zeros(n_rollout_threads)
    /\ pc' = "eval_loop"
    /\ UNCHANGED <<cfgvars, built, buffer, error, runvars, evalcfg, eval_envs,
                   total_episodes, eval_episode_rewards, eval_cumulative_rewards,
                   eval_actions, eval_rewards, eval_dones, evalhist>>

\* (mutant of EvalContinue) the loop stops one episode short of the target
EvalContinueShort == total_episodes + 1 < eval_episodes

\* while total_episodes < self.eval_episodes
EvalContinue == total_episodes < eval_episodes

\* policy.act(np.concatenate(eval_obs), np.concatenate(eval_rnn_states),
\* deterministic=True); both results are split into n_rollout_threads blocks
EvalAct ==
    /\ pc = "eval_loop"
    /\ EvalContinue
    /\ Len(completed) < MaxEvalSteps
    /\ LET flat_obs == Concatenate(eval_obs)
           flat_rnn == Concatenate(eval_rnn_states)
           k == Len(completed)
       IN  /\ eval_in_obs' = flat_obs
           /\ eval_in_rnn' = flat_rnn
           /\ eval_actions' = Split(PolicyActions(flat_obs), n_rollout_threads)
           /\ eval_rnn_states' = Split(PolicyRnnActor(k, Len(flat_obs)), n_rollout_threads)
    /\ eval_pol_rnn' = eval_rnn_states'
    /\ pc' = "eval_step"
    /\ UNCHANGED <<cfgvars, built, buffer, error, runvars, envs, evalcfg, eval_envs,
                   total_episodes, eval_episode_rewards, eval_cumulative_rewards,
                   eval_obs, eval_rewards, eval_dones, completed, eval_partial,
                   eval_infos>>

\* eval_obs, eval_rewards, eval_dones, eval_infos = self.eval_envs.step(eval_actions):
\* the pool takes one block of actions per environment of its own
EvalEnvsStep ==
    /\ pc = "eval_step"
    /\ IF Cardinality(DOMAIN eval_actions) # eval_envs.n
       THEN /\ pc' = "error"
            /\ error' = "ShapeError"
            /\ UNCHANGED <<eval_envs, eval_obs, eval_rewards, eval_dones>>
       ELSE /\ \E d \in DoneBatches(eval_envs.n) :
                  /\ eval_envs' = [EnvStep(eval_envs, eval_envs.n) EXCEPT !.n = eval_envs.n]
                  /\ eval_obs' = eval_envs'.obs
                  /\ eval_rewards' = EnvRewards(eval_envs'.tick, eval_envs.n)
                  /\ eval_dones' = d
            /\ pc' = "eval_account"
            /\ error' = error
    /\ UNCHANGED <<cfgvars, built, buffer, runvars, envs, evalcfg,
                   total_episodes, eval_episode_rewards, eval_cumulative_rewards,
                   eval_rnn_states, eval_actions, evalhist>>

\* (mutant of AllDone) an environment counts as soon as one agent is done
AnyDone(row) == \E a \in DOMAIN row : row[a]

\* np.all(eval_dones, axis=-1) for one environment
AllDone(row) == \A a \in DOMAIN row : row[a]

\* eval_cumulative_rewards += eval_rewards
AddRewards(cum, rew) ==
    [e \in DOMAIN cum |-> [a \in DOMAIN cum[e] |-> cum[e][a] + rew[e][a]]]

\* (mutant of SelectRows) only the first selected row is taken
SelectRowsFirst(x, mask, i) ==
    IF \E e \in DOMAIN x : mask[e]
    THEN <<x[CHOOSE e \in DOMAIN x : mask[e] /\ \A f \in DOMAIN x : mask[f] => e <= f]>>
    ELSE <<>>

\* x[mask == True] as the list += takes it: the selected rows in index order
RECURSIVE SelectRows(_, _, _)
SelectRows(x, mask, i) ==
    IF i > Cardinality(DOMAIN x) THEN <<>>
    ELSE (IF mask[i] THEN <<x[i]>> ELSE <<>>) \o SelectRows(x, mask, i + 1)

\* (mutant of ZeroRows) nothing is reset
ZeroRowsNone(x, mask) == x

\* x[mask == True] = 0
ZeroRows(x, mask) ==
    [e \in DOMAIN x |-> IF mask[e] THEN [a \in DOMAIN x[e] |-> 0] ELSE x[e]]

\* the accounting of one evaluation step (lines 134-140)
EvalAccount ==
    /\ pc = "eval_account"
    /\ LET cum == AddRewards(eval_cumulative_rewards, eval_rewards)
           mask == [e \in DOMAIN eval_dones |-> AllDone(eval_dones[e])]
           n == Cardinality({e \in DOMAIN mask : mask[e]})
       IN  /\ total_episodes' = total_episodes + n
           /\ eval_episode_rewards' = eval_episode_rewards \o SelectRows(cum, mask, 1)
           /\ eval_cumulative_rewards' = ZeroRows(cum, mask)
           /\ eval_rnn_states' = ZeroRows(eval_rnn_states, mask)
           /\ eval_dones' = mask
           /\ completed' = Append(completed, {e \in DOMAIN mask : mask[e]})
           /\ eval_partial' = {e \in DOMAIN mask :
                                  ~mask[e] /\ \E a \in Agents : eval_dones[e][a]}
    /\ pc' = "eval_loop"
    /\ UNCHANGED <<cfgvars, built, buffer, error, runvars, envs, evalcfg, eval_envs,
                   eval_obs, eval_actions, eval_rewards,
                   eval_in_obs, eval_in_rnn, eval_pol_rnn, eval_infos>>

\* the sum of the entries of one (A, F) row, agents a..A
RECURSIVE SumAgents(_, _)
SumAgents(row, a) ==
    IF a > NumAgents THEN 0 ELSE row[a] + SumAgents(row, a + 1)

\* the sum of the entries of a list of (A, F) rows
RECURSIVE SumRewards(_)
SumRewards(rs) ==
    IF rs = <<>> THEN 0 ELSE SumAgents(Head(rs), 1) + SumRewards(Tail(rs))

\* np.array(eval_episode_rewards).mean(): the mean over every entry of the
\* (episodes, A, F) array, kept as the sum and the number of entries (no
\* entry: nan)
Mean(rs) == [sum |-> SumRewards(rs), n |-> Len(rs) * NumAgents]

\* the loop is left: the mean of eval_episode_rewards is reported by log_info
EvalReport ==
    /\ pc = "eval_loop"
    /\ ~EvalContinue
    /\ eval_infos' = Append(eval_infos, Mean(eval_episode_rewards))
    /\ pc' = "eval_done"
    /\ UNCHANGED <<cfgvars, built, buffer, error, runvars, envs, evalcfg, eval_envs,
                   evallocals, eval_in_obs, eval_in_rnn, eval_pol_rnn, completed,
                   eval_partial>>

NextEval ==
    \/ EvalReset
    \/ EvalAct
    \/ EvalEnvsStep
    \/ EvalAccount
    \/ EvalReport

SpecEval == InitEval /\ [][NextEval]_vars

\* ================================================================== claims
\* run() is over: it returned, or an exception ended it
RunEnded == pc = "done" \/ (pc = "error" /\ error = "TypeError")

\* floor(T_total / (H * E))
ClaimedCycles == num_env_steps \div (buffer_size * n_rollout_threads)

\* C1: run() executes exactly floor(T_total / (H * E)) update cycles, each of
\* exactly H collect / env-step / insert triples followed by one return
\* computation and one policy update, so insert is called exactly
\* H * floor(T_total / (H * E)) times in the run.
C1_ExactCycles ==
    /\ pc = "compute" =>
          /\ cnt.collect = buffer_size * (episode + 1)
          /\ cnt.envstep = buffer_size * (episode + 1)
          /\ cnt.insert = buffer_size * (episode + 1)
          /\ cnt.compute = episode
          /\ cnt.train = episode
    /\ RunEnded =>
          /\ cnt.train = ClaimedCycles
          /\ cnt.compute = ClaimedCycles
          /\ cnt.insert = buffer_size * ClaimedCycles
          /\ cnt.collect = cnt.insert
          /\ cnt.envstep = cnt.insert

\* the slot that the insert just executed wrote (the for loop has advanced
\* its index when it goes on to the next collect)
InsertedSlot == IF pc = "collect" THEN step ELSE step + 1

\* C2: the recurrent states insert() hands to the buffer for slot t+1 are zero
\* for the (e, a) whose done flag is set and are the states the Policy returned
\* at step t for every other (e, a).
C2_ResetMasking ==
    last = "insert" =>
        \A e \in Envs(n_rollout_threads) : \A a \in Agents :
            /\ rnn_states_actor[e][a] =
                  (IF dones[e][a] THEN 0 ELSE pol_rnn_actor[e][a])
            /\ rnn_states_critic[e][a] =
                  (IF dones[e][a] THEN 0 ELSE pol_rnn_critic[e][a])
            /\ buffer.rnn_states_actor[InsertedSlot][e][a] = rnn_states_actor[e][a]
            /\ buffer.rnn_states_critic[InsertedSlot][e][a] = rnn_states_critic[e][a]

\* an insert has masked one agent of an environment and left the other alone
C2_Witness ==
    /\ last = "insert"
    /\ \E e \in Envs(n_rollout_threads) :
          /\ dones[e][1] /\ ~dones[e][2]
          /\ rnn_states_actor[e][1] = 0
          /\ rnn_states_actor[e][2] # 0
          /\ rnn_states_critic[e][2] = pol_rnn_critic[e][2]

\* row of (e, a) in a flat array
Row(e, a) == (e - 1) * NumAgents + a

C4_Continuity ==
    /\ (pc = "collect" /\ step = 0) =>
          /\ buffer.obs[0] = envs.obs
          /\ episode = 0 => (envs.resets = 1 /\ envs.steps = 0)
          /\ episode > 0 =>
                /\ buffer.obs[0] = buffer.obs[buffer_size]
                /\ slot_cycle[buffer_size] = episode - 1
                /\ envs.steps = buffer_size * episode
    /\ (pc \in {"compute", "train", "save", "log", "eval"}) =>
          /\ buffer.obs[0] = buffer.obs[buffer_size]
          /\ buffer.obs[0] = obs

\* a second cycle starts
C4_Witness ==
    /\ pc = "collect"
    /\ step = 0
    /\ episode > 0
    /\ buffer.obs[0] = buffer.obs[buffer_size]
    /\ envs.steps > 0

\* C5: collect, env step and insert alternate in that order, the return
\* computation and the policy update of a cycle come after all H inserts of
\* the cycle, and no insert of cycle k+1 comes before the return computation,
\* the policy update and the mean-reward read of cycle k: the readers of the
\* buffer see slots 1..H written by the current cycle.
C5_PhaseSequencing ==
    /\ pc = "collect" =>
          /\ cnt.collect = buffer_size * episode + step
          /\ cnt.envstep = cnt.collect
          /\ cnt.insert = cnt.collect
    /\ pc = "envstep" =>
          /\ cnt.collect = buffer_size * episode + step + 1
          /\ cnt.envstep = cnt.collect - 1
          /\ cnt.insert = cnt.collect - 1
    /\ pc = "insert" =>
          /\ cnt.collect = buffer_size * episode + step + 1
          /\ cnt.envstep = cnt.collect
          /\ cnt.insert = cnt.collect - 1
    /\ pc \in {"collect", "envstep", "insert"} =>
          /\ cnt.compute = episode
          /\ cnt.train = episode
          /\ \A c \in 0..(episode - 1) : c % log_interval = 0 => c \in logged
    /\ pc \in {"compute", "train", "save", "log", "eval"} =>
          /\ cnt.insert = buffer_size * (episode + 1)
          /\ \A t \in 1..buffer_size : slot_cycle[t] = episode
          /\ cnt.compute = (IF pc = "compute" THEN episode ELSE episode + 1)
          /\ cnt.train = (IF pc \in {"compute", "train"} THEN episode ELSE episode + 1)

\* the mean reward of a later cycle is read from a horizon of two slots
C5_Witness ==
    /\ pc = "eval"
    /\ episode > 0
    /\ buffer_size > 1
    /\ episode \in logged
    /\ \A t \in 1..buffer_size : slot_cycle[t] = episode

\* C6: in every run with at least one update cycle save() is invoked after the
\* policy update of cycle 0 and of the final cycle, on any other cycle exactly
\* when the cycle is a multiple of the save interval, and at most once a cycle.
C6_Checkpoints ==
    /\ cnt.save = Cardinality(saved)
    /\ \A c \in saved : c < cnt.train
    /\ (RunEnded /\ ClaimedCycles >= 1) =>
          /\ 0 \in saved
          /\ (ClaimedCycles - 1) \in saved
          /\ \A c \in 1..(ClaimedCycles - 2) :
                c \in saved <=> c % save_interval = 0

\* the environments of the evaluation pool
EvalPool == 1..eval_envs.n

C8_Scenario ==
    /\ eval_episodes = 3
    /\ eval_envs.n = 2
    /\ Len(completed) >= 1
    /\ completed[1] = {1, 2}

C10_LoadErrors ==
    /\ (pc # "load" /\ (n_obs_spaces # NumAgents \/ algorithm_name # "ppo")) =>
          /\ pc = "error"
          /\ error \in {"AssertionError", "NotImplementedError"}
          /\ built = {}
          /\ envs.resets = 0
          /\ envs.steps = 0
    /\ error \in {"AssertionError", "NotImplementedError"} =>
          /\ last = "load"
          /\ cnt.collect = 0
    /\ built # {} => (n_obs_spaces = NumAgents /\ algorithm_name = "ppo")

\* load() has refused an unknown algorithm identifier
C10_Witness ==
    /\ pc = "error"
    /\ error = "NotImplementedError"
    /\ algorithm_name # "ppo"
    /\ built = {}

\* C11: flattening an (E, A, F) array by concatenating its E blocks and
\* splitting the result into E equal contiguous blocks gives the array back,
\* and flat row e*A + a is (environment e, agent a) both in what collect()
\* passes to the Policy and in what it makes of the Policy's flat outputs.
C11_RoundTrip ==
    pc = "envstep" =>
        LET E == n_rollout_threads
            k == cnt.collect - 1
            n == E * NumAgents
        IN  /\ Split(Concatenate(buffer.obs[step]), E) = buffer.obs[step]
            /\ Split(Concatenate(buffer.rnn_states_actor[step]), E) =
                  buffer.rnn_states_actor[step]
            /\ Split(Concatenate(buffer.rnn_states_critic[step]), E) =
                  buffer.rnn_states_critic[step]
            /\ Len(in_obs) = n
            /\ DOMAIN actions = Envs(E)
            /\ \A e \in Envs(E) :
                  /\ DOMAIN actions[e] = Agents
                  /\ DOMAIN rnn_states_actor[e] = Agents
                  /\ \A a \in Agents :
                        /\ in_obs[Row(e, a)] = buffer.obs[step][e][a]
                        /\ in_rnn_actor[Row(e, a)] = buffer.rnn_states_actor[step][e][a]
                        /\ in_rnn_critic[Row(e, a)] = buffer.rnn_states_critic[step][e][a]
                        /\ actions[e][a] = PolicyActions(in_obs)[Row(e, a)]
                        /\ values[e][a] = PolicyValues(in_obs)[Row(e, a)]
                        /\ action_log_probs[e][a] = PolicyLogProbs(in_obs)[Row(e, a)]
                        /\ rnn_states_actor[e][a] = PolicyRnnActor(k, n)[Row(e, a)]
                        /\ rnn_states_critic[e][a] = PolicyRnnCritic(k, n)[Row(e, a)]

\* with two environments the first agent of the second environment got the
\* action of its own flat row, which is not the row before it
C11_Witness ==
    /\ pc = "envstep"
    /\ n_rollout_threads = 2
    /\ in_obs[Row(2, 1)] = buffer.obs[step][2][1]
    /\ in_obs[Row(2, 1)] # in_obs[Row(1, NumAgents)]
    /\ actions[2][1] = PolicyActions(in_obs)[Row(2, 1)]
    /\ actions[2][1] # actions[1][NumAgents]

\* the positions of run() after warmup() has returned
AfterWarmup ==
    \/ pc \in {"episode", "collect", "envstep", "insert", "compute", "train",
               "save", "log", "eval", "done"}
    \/ (pc = "error" /\ error = "TypeError")

C13_Periodic ==
    /\ cnt.log = Cardinality(logged)
    /\ cnt.eval = Cardinality(evaluated)
    /\ ~use_eval => evaluated = {}
    /\ \A c \in logged : c % log_interval = 0 /\ c < cnt.train
    /\ \A c \in evaluated : use_eval /\ c % eval_interval = 0 /\ c < cnt.train
    /\ \A c \in 0..(episode - 1) :
          /\ c \in logged <=> c % log_interval = 0
          /\ c \in evaluated <=> (use_eval /\ c % eval_interval = 0)
    /\ pc \in {"collect", "envstep", "insert", "compute", "train", "save", "log"} =>
          (episode \notin logged /\ episode \notin evaluated)
    /\ pc = "eval" =>
          /\ episode \in logged <=> episode % log_interval = 0
          /\ episode \notin evaluated
    /\ last \in {"log", "eval"} =>
          /\ cnt.train = episode + 1
          /\ cnt.collect = buffer_size * (episode + 1)
          /\ episode \in saved <=>
                (episode % save_interval = 0 \/ episode = episodes - 1)
    /\ last = "eval" =>
          /\ episode \in evaluated
          /\ episode \in logged <=> episode % log_interval = 0
    /\ last = "next" =>
          /\ ~(use_eval /\ (episode - 1) % eval_interval = 0)
          /\ cnt.collect = buffer_size * episode

\* with a log interval of 2 and evaluation disabled, cycles 0 and 2 have been
\* logged, cycle 1 has not, and no cycle has been evaluated
C13_Witness ==
    /\ pc = "eval"
    /\ episode = 2
    /\ log_interval = 2
    /\ logged = {0, 2}
    /\ ~use_eval
    /\ eval_interval = 1
    /\ evaluated = {}

C19_EvalTermination ==
    /\ [](last = "eval" => <>(pc # "error" /\ Len(eval_infos) = cnt.eval))
    /\ [](pc = "run" => <>(pc = "done" /\ episode = episodes))
====
